---- MODULE Spec2Model ----
\* CNN text classifier training script (custom_pytorch_nlp/src/main.py):
\* the batch loaders, the shapes of Net.forward, the train()/test() control
\* flow, the optimizer's effect on the parameters and save_model().
EXTENDS Integers, Sequences, FiniteSets, TLC

\* ---------------------------------------------------------------- bounds
MaxTrainN == 33        \* largest training set (samples)
MaxTestN == 2          \* largest test set (samples)
MaxEpochs == 2         \* largest --epochs value tried (smallest is -1)
MaxSeqLen == 42        \* longest token sequence of the data files
MaxNumClasses == 5     \* largest --num_classes value tried
MaxLabelWidth == 5     \* widest label vector of the data files
MaxFwdLen == 60        \* longest sequence fed to the forward pass alone

\* ------------------------------------------------------ program constants
TrainBatchSize == 16   \* DataLoader(..., batch_size=16)
TestBatchSize == 1     \* DataLoader(..., batch_size=1)
DefaultNumClasses == 4 \* --num_classes default
EmbeddingDim == 100    \* nn.Embedding(400000, 100)
ConvOut == 128         \* nn.Conv1d(100, 128, kernel_size=3)
KernelSize == 3        \* nn.Conv1d(100, 128, kernel_size=3)
PoolSize == 5          \* nn.MaxPool1d(5)
Fc1In == 896           \* nn.Linear(896, 128)
Fc1Out == 128          \* nn.Linear(896, 128)
Fc2Out == 4            \* nn.Linear(128, 4)
LogStride == 16        \* the 16 multiplying batch_idx in the log condition
LogWindow == 16        \* the 16 the remainder is compared with

None == [none |-> TRUE]

Max(a, b) == IF a >= b THEN a ELSE b
CeilDiv(a, b) == (a + b - 1) \div b

RECURSIVE SumLens(_)
SumLens(bs) == IF bs = <<>> THEN 0 ELSE Len(Head(bs)) + SumLens(Tail(bs))

\* ------------------------------------------------------------ input sets
SeqLens == (MaxSeqLen - 2)..MaxSeqLen
EpochValues == (-1)..MaxEpochs
NumClassValues == DefaultNumClasses..MaxNumClasses
LabelWidths == Fc2Out..MaxLabelWidth

\* ------------------------------------------------------- Dataset, loaders
\* Dataset(data, labels): __len__ is len(data); item i is (data[i], labels[i]).
Dataset(n, seq_len, width) == [n |-> n, seq_len |-> seq_len, width |-> width]

DatasetLen(ds) == ds.n

\* DataLoader(dataset, batch_size=B): the keyword defaults are shuffle=False
\* and drop_last=False.
DataLoader(ds, b) ==
    [dataset |-> ds, batch_size |-> b, shuffle |-> FALSE, drop_last |-> FALSE]

\* The sampler of a loader: the orders one pass may visit the sample indices
\* in. Without shuffle it is the stored order 0, 1, ..., n-1.
\* (SamplerOrdersReversed: a variant that visits them in another order.)
SamplerOrdersReversed(ld) ==
    LET n == DatasetLen(ld.dataset) IN {[i \in 1..n |-> n - i]}

SamplerOrders(ld) ==
    LET n == DatasetLen(ld.dataset) IN
    IF ld.shuffle
    THEN {f \in [1..n -> 0..(n - 1)] : \A i, j \in 1..n : f[i] = f[j] => i = j}
    ELSE {[i \in 1..n |-> i - 1]}

\* iter(loader): a fresh pass over one sampler order.
NewIter(order) == [order |-> order, pos |-> 0]

\* The batch sampler: the next batch_size indices of the order; a last
\* batch that is short is yielded unless drop_last.
\* (BatchEndDropTail: the variant that always drops a short last batch.)
BatchEndDropTail(it, ld) ==
    IF it.pos + ld.batch_size <= Len(it.order) THEN it.pos + ld.batch_size
    ELSE it.pos

BatchEnd(it, ld) ==
    IF it.pos + ld.batch_size <= Len(it.order) THEN it.pos + ld.batch_size
    ELSE IF ld.drop_last THEN it.pos ELSE Len(it.order)

HasNext(it, ld) == BatchEnd(it, ld) > it.pos

NextBatch(it, ld) == SubSeq(it.order, it.pos + 1, BatchEnd(it, ld))

Advance(it, ld) == [it EXCEPT !.pos = BatchEnd(it, ld)]

\* --------------------------------------------------- Net: shapes of forward
\* A tensor is known by its shape; a raised shape error is Err.
Tensor(dims) == [ok |-> TRUE, dims |-> dims]
Err == [ok |-> FALSE, dims |-> <<>>]

\* x = self.embedding(x): (B, L) -> (B, L, 100)
EmbeddingLayer(x) == Tensor(Append(x.dims, EmbeddingDim))

\* x = torch.transpose(x, 1, 2): (B, L, 100) -> (B, 100, L)
Transpose12(x) == Tensor(<<x.dims[1], x.dims[3], x.dims[2]>>)

\* Conv1d, kernel 3, stride 1, no padding: output length L - 3 + 1.
\* (ConvOutLenPadded: the variant with padding that keeps the length.)
ConvOutLenPadded(l) == l

ConvOutLen(l) == l - KernelSize + 1

Conv1(x) ==
    IF x.dims[2] # EmbeddingDim \/ x.dims[3] < KernelSize THEN Err
    ELSE Tensor(<<x.dims[1], ConvOut, ConvOutLen(x.dims[3])>>)

\* MaxPool1d(5): stride = window, output length floor((L - 5) / 5) + 1,
\* an error when that is below 1.
PoolOutLen(l) == (l - PoolSize) \div PoolSize + 1

MaxPool(x) ==
    IF PoolOutLen(x.dims[3]) < 1 THEN Err
    ELSE Tensor(<<x.dims[1], x.dims[2], PoolOutLen(x.dims[3])>>)

\* nn.Flatten(): (B, C, L) -> (B, C * L)
Flatten(x) == Tensor(<<x.dims[1], x.dims[2] * x.dims[3]>>)

\* nn.Dropout(p=0.3): shape unchanged.
Dropout(x) == x

\* F.relu(self.fc1(x)): Linear(896, 128) needs 896 input features.
Fc1(x) == IF x.dims[2] # Fc1In THEN Err ELSE Tensor(<<x.dims[1], Fc1Out>>)

\* self.fc2(x): Linear(128, 4).
Fc2(x) == IF x.dims[2] # Fc1Out THEN Err ELSE Tensor(<<x.dims[1], Fc2Out>>)

\* F.softmax(x): shape unchanged.
Softmax(x) == x

\* The layers of Net.forward, by name, in the order they are applied.
Layer(name, x) ==
    CASE name = "embedding" -> EmbeddingLayer(x)
      [] name = "transpose" -> Transpose12(x)
      [] name = "conv1" -> Conv1(x)
      [] name = "max_pool1d" -> MaxPool(x)
      [] name = "flatten1" -> Flatten(x)
      [] name = "dropout1" -> Dropout(x)
      [] name = "fc1" -> Fc1(x)
      [] name = "fc2" -> Fc2(x)
      [] name = "softmax" -> Softmax(x)

\* A layer applied to the value of x, an earlier error passed on.
Then(name, x) ==
    CHOOSE y \in {IF v.ok THEN Layer(name, v) ELSE Err : v \in {x}} : TRUE

\* Net.forward as a whole, on a batch x0 of shape (B, L).
Forward(x0) ==
    LET x1 == Then("embedding", x0)
        x2 == Then("transpose", x1)
        x3 == Then("conv1", x2)
        x4 == Then("max_pool1d", x3)
        x5 == Then("flatten1", x4)
        x6 == Then("dropout1", x5)
        x7 == Then("fc1", x6)
        x8 == Then("fc2", x7)
    IN Then("softmax", x8)

\* F.binary_cross_entropy(output, target): the target must have the
\* output's shape.
LossOk(out, tgt) == out.ok /\ out.dims = tgt.dims

\* ------------------------------------------------------------ Net objects
ParamNames == {"embedding", "conv1", "fc1", "fc2"}

\* Net(): every parameter freshly initialised and trainable; fc2 has 4
\* outputs whatever the arguments say.
Net(id) ==
    [id |-> id,
     embedding |-> "initial",
     requires_grad |-> ParamNames,
     updates |-> [p \in ParamNames |-> 0],
     out_features |-> Fc2Out,
     training |-> TRUE]

\* model.embedding.weight = Parameter(FloatTensor(embedding_matrix), False):
\* the second argument is requires_grad. (EmbeddingTrainable: the variant
\* that leaves it at the default True.)
EmbeddingTrainable == TRUE

EmbeddingRequiresGrad == FALSE

LoadEmbedding(net) ==
    [net EXCEPT !.embedding = "matrix",
                !.requires_grad = IF EmbeddingRequiresGrad THEN @
                                  ELSE @ \ {"embedding"}]

\* loss.backward(): a gradient for every parameter that requires one.
Backward(net) == net.requires_grad

\* optimizer.step(): every parameter holding a gradient is updated.
OptimizerStep(net, g) ==
    [net EXCEPT !.updates = [p \in ParamNames |->
                                IF p \in g THEN @[p] + 1 ELSE @[p]],
                !.embedding = IF "embedding" \in g THEN "updated" ELSE @]

\* ------------------------------------------------------------------ state
VARIABLES
    pc,            \* position of the control thread in train() / test() / forward
    args,          \* parsed hyperparameters: epochs, num_classes
    files,         \* the .npy data of the train and test channels
    train_loader,  \* DataLoader over the training set
    test_loader,   \* DataLoader over the test set
    model,         \* the network being trained
    nets,          \* number of Net objects constructed so far
    grads,         \* parameters currently holding a gradient
    epoch,         \* loop variable of train()
    batch_idx,     \* enumerate(train_loader, 1) index
    train_iter,    \* the running pass over train_loader
    test_iter,     \* the running pass over test_loader
    batch,         \* sample indices of the batch in hand
    data,          \* input tensor of the batch in hand
    target,        \* label tensor of the batch in hand
    output,        \* result of the latest model(data)
    loss,          \* the batch the latest training loss belongs to
    test_sum,      \* number of test batches summed into test_loss
    log,           \* lines printed so far
    artifact,      \* the network serialized to model.pt
    count,         \* how often each operation has run
    train_batches, \* batches yielded by the current training pass
    test_batches,  \* batches yielded by the current test pass
    x              \* the activation inside Net.forward, layer by layer

vars == <<pc, args, files, train_loader, test_loader, model, nets, grads,
          epoch, batch_idx, train_iter, test_iter, batch, data, target,
          output, loss, test_sum, log, artifact, count, train_batches,
          test_batches, x>>

Ops == {"zero_grad", "forward", "loss", "backward", "step", "test",
        "test_forward", "save"}

Bump(c, op) == [c EXCEPT ![op] = @ + 1]

\* State shared by every specification before train() has run a statement.
Blank ==
    /\ train_loader = None
    /\ test_loader = None
    /\ model = None
    /\ nets = 0
    /\ grads = {}
    /\ epoch = 0
    /\ batch_idx = 0
    /\ train_iter = None
    /\ test_iter = None
    /\ batch = <<>>
    /\ target = None
    /\ output = None
    /\ loss = None
    /\ test_sum = 0
    /\ log = <<>>
    /\ artifact = None
    /\ count = [op \in Ops |-> 0]
    /\ train_batches = <<>>
    /\ test_batches = <<>>

\* parse_args() and the input channels: any hyperparameters, any data files.
Init ==
    /\ pc = "load"
    /\ args \in [epochs : EpochValues, num_classes : NumClassValues]
    /\ \E n \in 0..MaxTrainN, m \in 0..MaxTestN, l1 \in SeqLens, l2 \in SeqLens,
          w \in LabelWidths :
          files = [train |-> Dataset(n, l1, w), test |-> Dataset(m, l2, w)]
    /\ data = None
    /\ x = None
    /\ Blank

\* ------------------------------------------------------------ train(args)
\* train_loader = load_training_data(...); test_loader = load_testing_data(...)
LoadData ==
    /\ pc = "load"
    /\ train_loader' = DataLoader(files.train, TrainBatchSize)
    /\ test_loader' = DataLoader(files.test, TestBatchSize)
    /\ pc' = "build"
    /\ UNCHANGED <<args, files, model, nets, grads, epoch, batch_idx,
                   train_iter, test_iter, batch, data, target, output, loss,
                   test_sum, log, artifact, count, train_batches,
                   test_batches, x>>

\* model = Net(); the embedding matrix replaces the embedding weight;
\* DataParallel wrapper; optimizer over model.parameters().
BuildModel ==
    /\ pc = "build"
    /\ model' = LoadEmbedding(Net(nets + 1))
    /\ nets' = nets + 1
    /\ grads' = {}
    /\ pc' = "epoch_start"
    /\ UNCHANGED <<args, files, train_loader, test_loader, epoch, batch_idx,
                   train_iter, test_iter, batch, data, target, output, loss,
                   test_sum, log, artifact, count, train_batches,
                   test_batches, x>>

\* for epoch in range(1, args.epochs + 1): another epoch follows epoch ep.
\* (HasNextEpochInclusive: the variant that runs one epoch more.)
HasNextEpochInclusive(ep, e) == ep <= e

HasNextEpoch(ep, e) == ep < e

\* Loop head: next epoch, model.train(), a fresh pass over train_loader;
\* or the loop is over and save_model is next.
EpochStart ==
    /\ pc = "epoch_start"
    /\ IF HasNextEpoch(epoch, args.epochs)
       THEN /\ epoch' = epoch + 1
            /\ model' = [model EXCEPT !.training = TRUE]
            /\ \E order \in SamplerOrders(train_loader) :
                  train_iter' = NewIter(order)
            /\ batch_idx' = 0
            /\ train_batches' = <<>>
            /\ pc' = "train_fetch"
       ELSE /\ pc' = "save"
            /\ UNCHANGED <<epoch, model, train_iter, batch_idx, train_batches>>
    /\ UNCHANGED <<args, files, train_loader, test_loader, nets, grads,
                   test_iter, batch, data, target, output, loss, test_sum,
                   log, artifact, count, test_batches, x>>

\* for batch_idx, (X_train, y_train) in enumerate(train_loader, 1);
\* data, target = X_train.to(device), y_train.to(device)
TrainFetch ==
    /\ pc = "train_fetch"
    /\ IF HasNext(train_iter, train_loader)
       THEN /\ batch' = NextBatch(train_iter, train_loader)
            /\ train_iter' = Advance(train_iter, train_loader)
            /\ batch_idx' = batch_idx + 1
            /\ train_batches' = Append(train_batches, batch')
            /\ data' = Tensor(<<Len(batch'), files.train.seq_len>>)
            /\ target' = Tensor(<<Len(batch'), files.train.width>>)
            /\ pc' = "zero_grad"
       ELSE /\ pc' = "evaluate"
            /\ UNCHANGED <<batch, train_iter, batch_idx, train_batches, data,
                           target>>
    /\ UNCHANGED <<args, files, train_loader, test_loader, model, nets, grads,
                   epoch, test_iter, output, loss, test_sum, log, artifact,
                   count, test_batches, x>>

\* optimizer.zero_grad()
ZeroGrad ==
    /\ pc = "zero_grad"
    /\ grads' = {}
    /\ count' = Bump(count, "zero_grad")
    /\ pc' = "forward"
    /\ UNCHANGED <<args, files, train_loader, test_loader, model, nets, epoch,
                   batch_idx, train_iter, test_iter, batch, data, target,
                   output, loss, test_sum, log, artifact, train_batches,
                   test_batches, x>>

\* Variant of TrainForward that catches the error and goes on to the next
\* batch.
TrainForwardSkipBatch ==
    /\ pc = "forward"
    /\ output' = Forward(data)
    /\ count' = Bump(count, "forward")
    /\ pc' = IF output'.ok THEN "loss" ELSE "train_fetch"
    /\ UNCHANGED <<args, files, train_loader, test_loader, model, nets, grads,
                   epoch, batch_idx, train_iter, test_iter, batch, data,
                   target, loss, test_sum, log, artifact, train_batches,
                   test_batches, x>>

\* output = model(data); a shape error is not caught anywhere.
TrainForward ==
    /\ pc = "forward"
    /\ output' = Forward(data)
    /\ count' = Bump(count, "forward")
    /\ pc' = IF output'.ok THEN "loss" ELSE "failed"
    /\ UNCHANGED <<args, files, train_loader, test_loader, model, nets, grads,
                   epoch, batch_idx, train_iter, test_iter, batch, data,
                   target, loss, test_sum, log, artifact, train_batches,
                   test_batches, x>>

\* loss = F.binary_cross_entropy(output, target)
TrainLoss ==
    /\ pc = "loss"
    /\ IF LossOk(output, target)
       THEN /\ loss' = [epoch |-> epoch, batch_idx |-> batch_idx]
            /\ count' = Bump(count, "loss")
            /\ pc' = "backward"
       ELSE /\ pc' = "failed"
            /\ UNCHANGED <<loss, count>>
    /\ UNCHANGED <<args, files, train_loader, test_loader, model, nets, grads,
                   epoch, batch_idx, train_iter, test_iter, batch, data,
                   target, output, test_sum, log, artifact, train_batches,
                   test_batches, x>>

\* loss.backward()
TrainBackward ==
    /\ pc = "backward"
    /\ grads' = Backward(model)
    /\ count' = Bump(count, "backward")
    /\ pc' = "step"
    /\ UNCHANGED <<args, files, train_loader, test_loader, model, nets, epoch,
                   batch_idx, train_iter, test_iter, batch, data, target,
                   output, loss, test_sum, log, artifact, train_batches,
                   test_batches, x>>

\* optimizer.step()
TrainStep ==
    /\ pc = "step"
    /\ model' = OptimizerStep(model, grads)
    /\ count' = Bump(count, "step")
    /\ pc' = "log"
    /\ UNCHANGED <<args, files, train_loader, test_loader, nets, grads, epoch,
                   batch_idx, train_iter, test_iter, batch, data, target,
                   output, loss, test_sum, log, artifact, train_batches,
                   test_batches, x>>

\* if (len(train_loader.dataset) - batch_idx*16) <= 16
\* (LogDueStrict: the variant comparing with <.)
LogDueStrict(n, k) == n - k * LogStride < LogWindow

LogDue(n, k) == n - k * LogStride <= LogWindow

\* Variant of TrainLog that leaves the batch loop after the first batch.
TrainLogBreak ==
    /\ pc = "log"
    /\ log' = log
    /\ pc' = "evaluate"
    /\ UNCHANGED <<args, files, train_loader, test_loader, model, nets, grads,
                   epoch, batch_idx, train_iter, test_iter, batch, data,
                   target, output, loss, test_sum, artifact, count,
                   train_batches, test_batches, x>>

\* print("epoch: ..."); print("train_loss: ...") when due
TrainLog ==
    /\ pc = "log"
    /\ log' = IF LogDue(DatasetLen(train_loader.dataset), batch_idx)
              THEN log \o <<[kind |-> "epoch", epoch |-> epoch,
                             batch_idx |-> batch_idx],
                            [kind |-> "train_loss", epoch |-> loss.epoch,
                             batch_idx |-> loss.batch_idx]>>
              ELSE log
    /\ pc' = "train_fetch"
    /\ UNCHANGED <<args, files, train_loader, test_loader, model, nets, grads,
                   epoch, batch_idx, train_iter, test_iter, batch, data,
                   target, output, loss, test_sum, artifact, count,
                   train_batches, test_batches, x>>

\* ------------------------------------------ test(model, test_loader, device)
\* print("Evaluating model"); test(...): model.eval(); test_loss = 0;
\* a fresh pass over test_loader under no_grad.
Evaluate ==
    /\ pc = "evaluate"
    /\ model' = [model EXCEPT !.training = FALSE]
    /\ test_sum' = 0
    /\ \E order \in SamplerOrders(test_loader) : test_iter' = NewIter(order)
    /\ test_batches' = <<>>
    /\ count' = Bump(count, "test")
    /\ pc' = "test_fetch"
    /\ UNCHANGED <<args, files, train_loader, test_loader, nets, grads, epoch,
                   batch_idx, train_iter, batch, data, target, output, loss,
                   log, artifact, train_batches, x>>

\* for data, target in test_loader
TestFetch ==
    /\ pc = "test_fetch"
    /\ IF HasNext(test_iter, test_loader)
       THEN /\ batch' = NextBatch(test_iter, test_loader)
            /\ test_iter' = Advance(test_iter, test_loader)
            /\ test_batches' = Append(test_batches, batch')
            /\ data' = Tensor(<<Len(batch'), files.test.seq_len>>)
            /\ target' = Tensor(<<Len(batch'), files.test.width>>)
            /\ pc' = "test_forward"
       ELSE /\ pc' = "test_report"
            /\ UNCHANGED <<batch, test_iter, test_batches, data, target>>
    /\ UNCHANGED <<args, files, train_loader, test_loader, model, nets, grads,
                   epoch, batch_idx, train_iter, output, loss, test_sum, log,
                   artifact, count, train_batches, x>>

\* output = model(data)
TestForward ==
    /\ pc = "test_forward"
    /\ output' = Forward(data)
    /\ count' = Bump(count, "test_forward")
    /\ pc' = IF output'.ok THEN "test_loss" ELSE "failed"
    /\ UNCHANGED <<args, files, train_loader, test_loader, model, nets, grads,
                   epoch, batch_idx, train_iter, test_iter, batch, data,
                   target, loss, test_sum, log, artifact, train_batches,
                   test_batches, x>>

\* test_loss += F.binary_cross_entropy(output, target, size_average=False)
TestLoss ==
    /\ pc = "test_loss"
    /\ IF LossOk(output, target)
       THEN /\ test_sum' = test_sum + 1
            /\ pc' = "test_fetch"
       ELSE /\ pc' = "failed"
            /\ UNCHANGED test_sum
    /\ UNCHANGED <<args, files, train_loader, test_loader, model, nets, grads,
                   epoch, batch_idx, train_iter, test_iter, batch, data,
                   target, output, loss, log, artifact, count, train_batches,
                   test_batches, x>>

\* test_loss /= len(test_loader.dataset): division by zero on an empty
\* test set; print("val_loss: ...")
TestReport ==
    /\ pc = "test_report"
    /\ IF DatasetLen(test_loader.dataset) = 0
       THEN /\ pc' = "failed"
            /\ UNCHANGED log
       ELSE /\ log' = Append(log, [kind |-> "val_loss", epoch |-> epoch,
                                   batch_idx |-> test_sum])
            /\ pc' = "epoch_start"
    /\ UNCHANGED <<args, files, train_loader, test_loader, model, nets, grads,
                   epoch, batch_idx, train_iter, test_iter, batch, data,
                   target, output, loss, test_sum, artifact, count,
                   train_batches, test_batches, x>>

\* ------------------------------------------------ save_model(model, model_dir)
\* m = torch.jit.script(Net()): the network that is serialized.
\* (SavedNetTrained: the variant that serializes the network passed in.)
SavedNetTrained(trained, id) == trained

SavedNet(trained, id) == Net(id)

\* save_model(model, args.model_dir); m.save(path)
SaveModel ==
    /\ pc = "save"
    /\ artifact' = SavedNet(model, nets + 1)
    /\ nets' = nets + 1
    /\ count' = Bump(count, "save")
    /\ pc' = "done"
    /\ UNCHANGED <<args, files, train_loader, test_loader, model, grads,
                   epoch, batch_idx, train_iter, test_iter, batch, data,
                   target, output, loss, test_sum, log, train_batches,
                   test_batches, x>>

Next ==
    \/ LoadData
    \/ BuildModel
    \/ EpochStart
    \/ TrainFetch
    \/ ZeroGrad
    \/ TrainForward
    \/ TrainLoss
    \/ TrainBackward
    \/ TrainStep
    \/ TrainLog
    \/ Evaluate
    \/ TestFetch
    \/ TestForward
    \/ TestLoss
    \/ TestReport
    \/ SaveModel

Spec == Init /\ [][Next]_vars

\* ------------------------------------------- Net.forward, one layer a step
FwdBatchSizes == 1..TrainBatchSize

\* A call model(data) on any batch of any sequence length.
InitForward ==
    /\ pc = "fwd_embedding"
    /\ \E b \in FwdBatchSizes, l \in 0..MaxFwdLen : data = Tensor(<<b, l>>)
    /\ x = data
    /\ args = [epochs |-> 0, num_classes |-> DefaultNumClasses]
    /\ files = [train |-> Dataset(0, 0, Fc2Out), test |-> Dataset(0, 0, Fc2Out)]
    /\ Blank

FwdKeep == <<args, files, train_loader, test_loader, model, nets, grads, epoch,
             batch_idx, train_iter, test_iter, batch, data, target, output,
             loss, test_sum, log, artifact, count, train_batches,
             test_batches>>

FwdGoto(y, next) == IF y.ok THEN next ELSE "fwd_failed"

\* x = self.embedding(x)
FwdEmbedding ==
    /\ pc = "fwd_embedding"
    /\ x' = EmbeddingLayer(x)
    /\ pc' = FwdGoto(x', "fwd_transpose")
    /\ UNCHANGED FwdKeep

\* x = torch.transpose(x, 1, 2)
FwdTranspose ==
    /\ pc = "fwd_transpose"
    /\ x' = Transpose12(x)
    /\ pc' = FwdGoto(x', "fwd_conv")
    /\ UNCHANGED FwdKeep

\* self.conv1(x)
FwdConv ==
    /\ pc = "fwd_conv"
    /\ x' = Conv1(x)
    /\ pc' = FwdGoto(x', "fwd_pool")
    /\ UNCHANGED FwdKeep

\* self.max_pool1d(...)
FwdPool ==
    /\ pc = "fwd_pool"
    /\ x' = MaxPool(x)
    /\ pc' = FwdGoto(x', "fwd_flatten")
    /\ UNCHANGED FwdKeep

\* self.flatten1(...)
FwdFlatten ==
    /\ pc = "fwd_flatten"
    /\ x' = Flatten(x)
    /\ pc' = FwdGoto(x', "fwd_dropout")
    /\ UNCHANGED FwdKeep

\* x = self.dropout1(x)
FwdDropout ==
    /\ pc = "fwd_dropout"
    /\ x' = Dropout(x)
    /\ pc' = FwdGoto(x', "fwd_fc1")
    /\ UNCHANGED FwdKeep

\* x = F.relu(self.fc1(x))
FwdFc1 ==
    /\ pc = "fwd_fc1"
    /\ x' = Fc1(x)
    /\ pc' = FwdGoto(x', "fwd_fc2")
    /\ UNCHANGED FwdKeep

\* x = self.fc2(x)
FwdFc2 ==
    /\ pc = "fwd_fc2"
    /\ x' = Fc2(x)
    /\ pc' = FwdGoto(x', "fwd_softmax")
    /\ UNCHANGED FwdKeep

\* return F.softmax(x)
FwdSoftmax ==
    /\ pc = "fwd_softmax"
    /\ x' = Softmax(x)
    /\ pc' = FwdGoto(x', "fwd_done")
    /\ UNCHANGED FwdKeep

NextForward ==
    \/ FwdEmbedding
    \/ FwdTranspose
    \/ FwdConv
    \/ FwdPool
    \/ FwdFlatten
    \/ FwdDropout
    \/ FwdFc1
    \/ FwdFc2
    \/ FwdSoftmax

SpecForward == InitForward /\ [][NextForward]_vars

\* =================================================================== claims
TrainN == files.train.n
TestN == files.test.n
NumTrainBatches == CeilDiv(TrainN, TrainBatchSize)
EpochsToRun == Max(args.epochs, 0)

InBatchPcs == {"zero_grad", "forward", "loss", "backward", "step", "log"}
TrainPcs == InBatchPcs \cup {"train_fetch"}
TestPcs == {"test_fetch", "test_forward", "test_loss", "test_report"}

\* Training batches fetched since the run began.
Fetched == IF epoch = 0 THEN 0 ELSE (epoch - 1) * NumTrainBatches + batch_idx

\* Concatenation of the batches of a pass, in the order they were yielded.
RECURSIVE Concat(_)
Concat(bs) == IF bs = <<>> THEN <<>> ELSE Head(bs) \o Concat(Tail(bs))

\* C1: within every training batch the operations run in the order zero_grad,
\* forward, loss, backward, optimizer step, each at most once and all on the
\* batch just fetched, an optimizer step always has the backward pass of its
\* own batch behind it, and test() is entered once per epoch, after that
\* epoch's last training batch and before the next epoch's first.
StepOrderAndEvalPerEpoch ==
    /\ count.zero_grad >= count.forward
    /\ count.forward >= count.loss
    /\ count.loss >= count.backward
    /\ count.backward >= count.step
    /\ count.step >= count.zero_grad - 1
    /\ pc = "zero_grad" => count.zero_grad = Fetched - 1
    /\ pc = "forward" => count.zero_grad = Fetched /\ count.forward = Fetched - 1
    /\ pc = "loss" => count.forward = Fetched /\ count.loss = Fetched - 1
    /\ pc = "backward" => count.loss = Fetched /\ count.backward = Fetched - 1
    /\ pc = "step" =>
          /\ count.backward = Fetched
          /\ count.step = Fetched - 1
          /\ grads = Backward(model)
    /\ pc \in {"log", "train_fetch"} => count.step = Fetched
    /\ pc \in TrainPcs => count.test = epoch - 1
    /\ pc = "evaluate" =>
          /\ count.test = epoch - 1
          /\ Len(train_batches) = NumTrainBatches
          /\ count.step = epoch * NumTrainBatches
    /\ pc \in TestPcs =>
          /\ count.test = epoch
          /\ count.step = epoch * NumTrainBatches
    /\ pc \in {"epoch_start", "save", "done"} => count.test = epoch

\* Reached: the optimizer step of the second batch of the second epoch, one
\* evaluation behind it.
StepOrderWitness ==
    /\ pc = "step"
    /\ epoch = 2
    /\ batch_idx = 2
    /\ count.test = 1

\* Progress measure of train(): it falls lexicographically with every step.
Rank ==
    <<CASE pc = "load" -> 4
        [] pc = "build" -> 3
        [] pc = "save" -> 1
        [] pc \in {"done", "failed"} -> 0
        [] OTHER -> 2,
      Max(args.epochs - epoch, 0),
      CASE pc \in TrainPcs -> 4
        [] pc = "evaluate" -> 3
        [] pc \in {"test_fetch", "test_forward", "test_loss"} -> 2
        [] pc = "test_report" -> 1
        [] OTHER -> 0,
      CASE pc \in TrainPcs -> Len(train_iter.order) - train_iter.pos
        [] pc \in {"test_fetch", "test_forward", "test_loss"} ->
              Len(test_iter.order) - test_iter.pos
        [] OTHER -> 0,
      CASE pc = "zero_grad" -> 6
        [] pc = "forward" -> 5
        [] pc = "loss" -> 4
        [] pc = "backward" -> 3
        [] pc = "step" -> 2
        [] pc = "log" -> 1
        [] pc = "test_forward" -> 2
        [] pc = "test_loss" -> 1
        [] OTHER -> 0>>

RECURSIVE LexLess(_, _)
LexLess(a, b) ==
    /\ a # <<>>
    /\ \/ Head(a) < Head(b)
       \/ Head(a) = Head(b) /\ LexLess(Tail(a), Tail(b))

\* C2: train() terminates for every epoch count: every step lowers a
\* well-founded measure and only "done" and "failed" have no next step; a
\* run that ends without a failure has run exactly max(E, 0) epochs, each
\* with every training batch stepped once and one evaluation, and save_model
\* runs exactly once, after the last epoch, also when E <= 0.
TrainTerminates ==
    /\ [][LexLess(Rank', Rank)]_vars
    /\ [](pc \notin {"done", "failed"} => ENABLED Next)
    /\ [](count.save <= 1)
    /\ [](count.save = 1 => pc = "done" /\ epoch = EpochsToRun)
    /\ [](pc = "done" =>
            /\ epoch = EpochsToRun
            /\ count.zero_grad = EpochsToRun * NumTrainBatches
            /\ count.step = EpochsToRun * NumTrainBatches
            /\ count.test = EpochsToRun
            /\ count.save = 1
            /\ artifact # None
            /\ args.epochs <= 0 => count.step = 0 /\ count.test = 0)

\* Reached: a finished run of two epochs over three training batches.
TrainTerminatesWitness ==
    /\ pc = "done"
    /\ args.epochs = 2
    /\ TrainN = 33
    /\ count.step = 6
    /\ count.test = 2

\* The batches of one pass over n samples with batch size b.
BatchesSoFarOk(bs, n, b) ==
    LET c == Concat(bs) IN
    /\ \A i \in 1..Len(bs) : Len(bs[i]) >= 1 /\ Len(bs[i]) <= b
    /\ \A i \in 1..(Len(bs) - 1) : Len(bs[i]) = b
    /\ Cardinality({c[i] : i \in 1..Len(c)}) = Len(c)
    /\ \A i \in 1..Len(c) : c[i] \in 0..(n - 1)

PassOk(bs, n, b) ==
    LET c == Concat(bs) IN
    /\ BatchesSoFarOk(bs, n, b)
    /\ Len(bs) = CeilDiv(n, b)
    /\ SumLens(bs) = n
    /\ \A s \in 0..(n - 1) :
          Cardinality({i \in 1..Len(c) : c[i] = s}) = 1

\* C3: one pass over a loader of N samples with batch size B (16 for
\* training, 1 for test) yields ceil(N/B) batches of at most B samples, all
\* but the last of exactly B, whose sizes sum to N and which hold every
\* sample index 0..N-1 exactly once.
LoaderBatching ==
    /\ train_loader # None => train_loader.batch_size = 16
    /\ test_loader # None => test_loader.batch_size = 1
    /\ pc \in TrainPcs => BatchesSoFarOk(train_batches, TrainN, 16)
    /\ pc = "evaluate" => PassOk(train_batches, TrainN, 16)
    /\ pc \in TestPcs => BatchesSoFarOk(test_batches, TestN, 1)
    /\ pc = "test_report" => PassOk(test_batches, TestN, 1)

\* Reached: a finished training pass of 33 samples in three batches, the
\* last of one sample.
LoaderBatchingWitness ==
    /\ pc = "evaluate"
    /\ TrainN = 33
    /\ Len(train_batches) = 3
    /\ Len(train_batches[3]) = 1

StoredOrder(seq) == \A i \in 1..Len(seq) : seq[i] = i - 1

SavedNetIsFresh ==
    artifact # None =>
        /\ artifact.id # model.id
        /\ artifact.id = nets
        /\ artifact.embedding = "initial"
        /\ \A p \in ParamNames : artifact.updates[p] = 0

\* Reached: a model saved after optimizer steps changed the trained network.
SavedNetWitness ==
    /\ artifact # None
    /\ model.updates["conv1"] >= 2
    /\ model.embedding = "matrix"

\* The parameter values of a network.
Params(net) == [embedding |-> net.embedding, updates |-> net.updates]

\* C6: once loaded, the embedding weight stays the loaded matrix through
\* every batch, step, evaluation and epoch; parameters change only in an
\* optimizer step, and then only those of conv1, fc1 and fc2.
EmbeddingFrozen ==
    /\ [](model # None =>
            /\ model.embedding = "matrix"
            /\ model.updates["embedding"] = 0
            /\ "embedding" \notin grads)
    /\ [][model # None /\ Params(model') # Params(model) =>
            /\ pc = "step"
            /\ model'.embedding = model.embedding
            /\ model'.updates["embedding"] = model.updates["embedding"]
            /\ \A p \in {"conv1", "fc1", "fc2"} :
                  model'.updates[p] = model.updates[p] + 1]_vars

\* Reached: optimizer steps in two epochs and an evaluation have run and the
\* embedding is still the loaded matrix.
EmbeddingFrozenWitness ==
    /\ model # None
    /\ epoch = 2
    /\ count.test >= 1
    /\ model.updates["fc2"] >= 3
    /\ model.embedding = "matrix"

\* C7 as stated: the output layer, and the probability vector of a forward
\* pass, are as wide as the configured number of classes.
OutputWidthIsNumClasses ==
    /\ model # None => model.out_features = args.num_classes
    /\ output # None /\ output.ok => output.dims[2] = args.num_classes

\* Training batches whose log step is behind them.
Logged == {<<log[i].epoch, log[i].batch_idx>> :
              i \in {j \in 1..Len(log) : log[j].kind = "train_loss"}}

LogStepsDone == count.step - (IF pc = "log" THEN 1 ELSE 0)

LogPassed(e, k) == (e - 1) * NumTrainBatches + k <= LogStepsDone

\* C8 as stated: the train_loss line follows batch k exactly when
\* N - 16k < 16.
LogWhenLessThanOneBatchLeft ==
    \A e \in 1..epoch, k \in 1..NumTrainBatches :
        (<<e, k>> \in Logged) <=> (LogPassed(e, k) /\ TrainN - 16 * k < 16)

\* C8 as amended: the epoch / train_loss lines follow the optimizer step of
\* batch k exactly when N - 16k <= 16, so also when exactly one full batch
\* of 16 samples remains.
LogWhenAtMostOneBatchLeft ==
    \A e \in 1..epoch, k \in 1..NumTrainBatches :
        (<<e, k>> \in Logged) <=> (LogPassed(e, k) /\ TrainN - 16 * k <= 16)

\* Reached: with 32 samples the lines were printed after batch 1, a full
\* batch of 16 still to come, and again after batch 2.
LogWitness ==
    /\ TrainN = 32
    /\ <<1, 1>> \in Logged
    /\ <<1, 2>> \in Logged

\* C9: for input length L the convolution yields length L-2, the max-pool
\* floor((L-2)/5) and the flattening 128 * floor((L-2)/5) features; the
\* forward pass succeeds exactly when that is 896 and fails otherwise.
ShapeContract ==
    LET l == data.dims[2] IN
    /\ pc = "fwd_pool" => x.dims[3] = l - 2
    /\ pc = "fwd_flatten" => x.dims[3] = (l - 2) \div 5
    /\ pc \in {"fwd_dropout", "fwd_fc1"} => x.dims[2] = 128 * ((l - 2) \div 5)
    /\ pc \in {"fwd_fc2", "fwd_softmax", "fwd_done"} =>
          128 * ((l - 2) \div 5) = 896
    /\ pc = "fwd_failed" => ~x.ok /\ 128 * ((l - 2) \div 5) # 896
    /\ pc = "fwd_done" => x.ok /\ x = Forward(data)
    /\ pc = "fwd_failed" => ~Forward(data).ok

\* Reached: a forward pass that succeeded on sequences of length 41.
ShapeContractWitness ==
    /\ pc = "fwd_done"
    /\ data.dims[2] = 41
    /\ x.dims = <<data.dims[1], 4>>

\* A step that raises: a forward pass on a wrong shape, a loss on a target
\* of another shape, the mean over an empty test set.
StepFails ==
    \/ pc \in {"forward", "test_forward"} /\ ~Forward(data).ok
    \/ pc \in {"loss", "test_loss"} /\ ~LossOk(output, target)
    \/ pc = "test_report" /\ TestN = 0

\* C10: a step that fails ends the run there: the next state is "failed",
\* from which nothing runs any more, and a failed run has not called
\* save_model and has written no model.pt.
FailureAbortsRun ==
    /\ [][StepFails =>
            /\ pc' = "failed"
            /\ count'.step = count.step
            /\ count'.save = count.save
            /\ model' = model]_vars
    /\ [][pc # "failed"]_vars
    /\ [](pc = "failed" => artifact = None /\ count.save = 0)

\* Reached: a run that failed in its evaluation, after optimizer steps.
FailureWitness ==
    /\ pc = "failed"
    /\ count.step > 0
    /\ count.test = 1
    /\ artifact = None

====
